---- MODULE Spec2Model ----
(***************************************************************************)
(* Model of recommender/full_deployment.py: the receipt pipeline           *)
(* full_deployment(key_path, test_path, dataset_path, uid, email, model,   *)
(* lon, lat).  One run is a sequence of steps (pc); the file system holds  *)
(* the dataset CSV and its ".backup" sibling; the collaborators            *)
(* (ocr_receipt, ved, pr, cc) and the file operations are the environment  *)
(* and answer nondeterministically.                                        *)
(***************************************************************************)
EXTENDS Integers, Sequences, FiniteSets, TLC

(* ------------------------------------------------------------------ *)
(* Bounds of the model                                                  *)
(* ------------------------------------------------------------------ *)
\* number of runs started in one behaviour
MaxRuns == 2
\* largest number of rows one extracted record holds
MaxRecRows == 1

(* ------------------------------------------------------------------ *)
(* Values                                                               *)
(* ------------------------------------------------------------------ *)
Runs == {"r1", "r2"}
\* the uid each caller passes
CallerUid == [r \in Runs |-> IF r = "r1" THEN "u1" ELSE "u2"]
\* what ocr_receipt returns (the receipt text): each call returns another text
\* than the call before it; rows carry the text as a stamp
Struk(attempt) == IF attempt % 2 = 0 THEN "s1" ELSE "s2"
\* a json.JSONDecodeError, named by the call and the attempt that raised it
DecodeError(op, attempt) == <<op, attempt>>
ProductLists == {"p1", "p2"}
Results == {"rec1", "rec2"}
Lons == {1}
Lats == {2}
Models == {"model", "None"}
\* a cell read as NaN by pandas
NaN == ""

\* emails as sequences of characters; "a", "b", "c" are the \w characters
WordChars == {"a", "b", "c"}
Emails ==
  { <<"a", "@", "b", ".", "c", "c">>,
    <<"a", "@", "b", ".", "c">>,
    <<"a", "b", ".", "c", "c">>,
    <<"a", "@", "b", "c">>,
    <<"a", ".", ".", "b", "@", "b", ".", "c", "c">>,
    <<"a", "@", "b", "-", "-", "b", ".", "c", "c">>,
    <<".", "a", "@", "b", ".", "c", "c">>,
    <<"a", "-", "@", "b", ".", "c", "c">>,
    <<"a", "@", "-", "b", ".", "c", "c">>,
    <<"a", "@", "b", ".", "c", "c", ".">> }

dataset_path == <<"dataset.csv">>

\* line 84: backup_path = f"{dataset_path}.backup"
backup_path == dataset_path \o <<".backup">>

Paths == {dataset_path, backup_path}

\* line 64
max_retries == 3

\* line 45
required_columns == {"uid", "long", "lat"}

(* ------------------------------------------------------------------ *)
(* Files: a file is a sequence of lines, a line a sequence of cells     *)
(* ------------------------------------------------------------------ *)
NoFile == [exists |-> FALSE, lines |-> <<>>]

FileOf(ls) == [exists |-> TRUE, lines |-> ls]

Header3 == <<"uid", "long", "lat">>

InitialDatasets ==
  { FileOf(<<Header3, <<"u0", "s0", "s0">>, <<"u1", "s0", "s0">>>>),
    NoFile,
    FileOf(<<>>),
    FileOf(<<Header3>>),
    FileOf(<<<<"uid", "long">>, <<"u0", "s0">>>>),
    FileOf(<<Header3, <<"u0", NaN, "s0">>>>) }

\* the column lists the extractor may produce
RecColumns ==
  { Header3,
    <<"uid", "lat", "long">>,
    <<"uid", "long">>,
    <<"uid", "long", "item">> }

SeqRange(s) == {s[i] : i \in 1..Len(s)}

Prefix(s, n) == SubSeq(s, 1, n)

\* the prefixes of a sequence, from nothing to all of it
Prefixes(s) == {Prefix(s, n) : n \in 0..Len(s)}

\* the write lands after what the file holds instead of at its start
WriteAt0_append(old, new) == old \o new

\* a write of `new` at offset 0 of a file holding `old`
WriteAt0(old, new) == new \o SubSeq(old, Len(new) + 1, Len(old))

(* ------------------------------------------------------------------ *)
(* pandas: read_csv, to_csv, DataFrame, concat, Index comparison        *)
(* ------------------------------------------------------------------ *)
\* a row shorter than the header is filled with NaN
PadRow(row, n) == [i \in 1..n |-> IF i <= Len(row) THEN row[i] ELSE NaN]

\* line 38: pd.read_csv raises on a file with no line at all
CanParse(file) == file.lines # <<>>

\* line 38: df = pd.read_csv(dataset_path)
read_csv(file) ==
  LET cols == Head(file.lines)
      body == Tail(file.lines)
  IN  [columns |-> cols,
       rows |-> [i \in 1..Len(body) |-> PadRow(body[i], Len(cols))]]

\* index=False left out: the row index is written as a first column
to_csv_index(frame) ==
  <<<<"">> \o frame.columns>>
    \o [i \in 1..Len(frame.rows) |-> <<ToString(i - 1)>> \o frame.rows[i]]

\* line 94: df.to_csv(dataset_path, index=False)
to_csv(frame) == <<frame.columns>> \o frame.rows

\* line 43: df.empty
IsEmpty(frame) == frame.rows = <<>> \/ frame.columns = <<>>

\* line 46: required_columns.issubset(df.columns)
HasRequired(frame) == required_columns \subseteq SeqRange(frame.columns)

ColIndex(cols, c) == CHOOSE i \in 1..Len(cols) : cols[i] = c

\* line 48: df[required_columns].isnull().any().any()
HasNull(frame) ==
  \E i \in 1..Len(frame.rows) :
    \E c \in required_columns : frame.rows[i][ColIndex(frame.columns, c)] = NaN

\* the rows of `data` laid out under the columns `cols`
Align(cols, data) ==
  [i \in 1..Len(data.rows) |->
     [j \in 1..Len(cols) |->
        IF cols[j] \in SeqRange(data.columns)
        THEN data.rows[i][ColIndex(data.columns, cols[j])]
        ELSE NaN]]

\* the new rows put before the existing ones
concat_prepend(frame, data) ==
  [columns |-> frame.columns, rows |-> Align(frame.columns, data) \o frame.rows]

\* the rows the table already holds are not appended again
concat_dedup(frame, data) ==
  [columns |-> frame.columns,
   rows |-> frame.rows
            \o SelectSeq(Align(frame.columns, data),
                         LAMBDA row : \A i \in 1..Len(frame.rows) : frame.rows[i] # row)]

\* the record appended twice
concat_twice(frame, data) ==
  [columns |-> frame.columns,
   rows |-> frame.rows \o Align(frame.columns, data) \o Align(frame.columns, data)]

\* line 93: pd.concat([df, data], ignore_index=True)
concat(frame, data) ==
  LET extra == SelectSeq(data.columns, LAMBDA c : c \notin SeqRange(frame.columns))
      cols == frame.columns \o extra
  IN  [columns |-> cols,
       rows |-> [i \in 1..Len(frame.rows) |-> PadRow(frame.rows[i], Len(cols))]
                \o Align(cols, data)]

\* line 80: df.columns == data.columns raises when the lengths differ
SameLength(a, b) == Len(a) = Len(b)

\* line 80: all(df.columns == data.columns)
ColumnsEqual(a, b) == \A i \in 1..Len(a) : a[i] = b[i]

(* ------------------------------------------------------------------ *)
(* line 52: the email pattern                                           *)
(*   ^\w+([\.-]?\w+)*@\w+([\.-]?\w+)*(\.\w{2,})+$                       *)
(* ------------------------------------------------------------------ *)
Separators == {".", "-"}

\* separators taken wherever they stand: [\w\.-]+
MatchSegments_lax(s) ==
  /\ s # <<>>
  /\ \A i \in 1..Len(s) : s[i] \in WordChars \cup Separators

\* \w+([\.-]?\w+)*
MatchSegments(s) ==
  /\ s # <<>>
  /\ \A i \in 1..Len(s) : s[i] \in WordChars \cup Separators
  /\ s[1] \in WordChars
  /\ s[Len(s)] \in WordChars
  /\ \A i \in 1..(Len(s) - 1) : ~(s[i] \in Separators /\ s[i + 1] \in Separators)

RECURSIVE MatchTlds(_)
\* (\.\w{2,})+
MatchTlds(s) ==
  /\ Len(s) >= 3
  /\ s[1] = "."
  /\ \E k \in 2..(Len(s) - 1) :
       /\ \A i \in 2..(k + 1) : s[i] \in WordChars
       /\ \/ k + 1 = Len(s)
          \/ MatchTlds(SubSeq(s, k + 2, Len(s)))

\* \w+([\.-]?\w+)*(\.\w{2,})+
MatchDomain(s) ==
  \E i \in 1..(Len(s) - 1) :
    MatchSegments(Prefix(s, i)) /\ MatchTlds(SubSeq(s, i + 1, Len(s)))

\* line 53: re.fullmatch(email_regex, email) is not None
email_regex(email) ==
  \E p \in 1..Len(email) :
    /\ email[p] = "@"
    /\ MatchSegments(Prefix(email, p - 1))
    /\ MatchDomain(SubSeq(email, p + 1, Len(email)))

(* ------------------------------------------------------------------ *)
(* State                                                                *)
(* ------------------------------------------------------------------ *)
VARIABLES
  fs,       \* the file system: path -> file
  local,    \* per run: the program counter, the arguments and the locals
  hist,     \* per run: what the run found at its start and what it did
  started,  \* number of runs started so far
  faulty,   \* whether collaborators and file operations may raise
  ledger    \* across the runs: what the dataset file started as and went through

vars == <<fs, local, hist, started, faulty, ledger>>

NoFrame == [columns |-> <<>>, rows |-> <<>>]

NoOutcome == [kind |-> "none", type |-> "", msg |-> "", detail |-> <<>>]

\* line 112: return end_rec
Returned(v) == [kind |-> "result", type |-> "", msg |-> "", detail |-> <<v>>]

Raised(type, msg, detail) ==
  [kind |-> "error", type |-> type, msg |-> msg, detail |-> detail]

IdleLocal ==
  [pc |-> "idle", uid |-> "", email |-> <<>>, model |-> "None", lon |-> 0, lat |-> 0,
   df |-> NoFrame, struk |-> "", data |-> NoFrame, attempt |-> 0,
   test_rec |-> "", outcome |-> NoOutcome]

\* pre, preBackup: the two files when the run started; calls: the calls made,
\* in order; errors: the decode errors caught; copy, save: how the copy and
\* the save ended; left: the dataset file as the save left it; prArgs, ccArgs:
\* the arguments the recommenders were called with; prResult, ccResult: what
\* they returned; empty: the attempts on which the extractor returned nothing
IdleHist ==
  [pre |-> NoFile, preBackup |-> NoFile, calls |-> <<>>, errors |-> <<>>,
   copy |-> "none", save |-> "none", left |-> NoFile,
   prArgs |-> <<>>, ccArgs |-> <<>>, prResult |-> "", ccResult |-> "",
   empty |-> <<>>]

\* kept: whether the ledger is kept in this behaviour; initial: the dataset
\* file before the first run; written: the content each completed write
\* left, in order; rows: the rows the completed writes appended, in order;
\* recFailed: the completed writes whose run then failed in a recommender
NoLedger ==
  [kept |-> FALSE, initial |-> NoFile, written |-> <<>>, rows |-> <<>>, recFailed |-> {}]

NewLedger(file) ==
  [kept |-> TRUE, initial |-> file, written |-> <<>>, rows |-> <<>>, recFailed |-> {}]

NoteWrite(file, rows) ==
  ledger' = IF ledger.kept
            THEN [ledger EXCEPT !.written = Append(@, file), !.rows = @ \o rows]
            ELSE ledger

NoteRecFailure ==
  ledger' = IF ledger.kept
            THEN [ledger EXCEPT !.recFailed = @ \cup {Len(ledger.written)}]
            ELSE ledger

InitRuns ==
  /\ fs \in {[p \in Paths |-> IF p = dataset_path THEN d ELSE NoFile] : d \in InitialDatasets}
  /\ local = [r \in Runs |-> IdleLocal]
  /\ hist = [r \in Runs |-> IdleHist]
  /\ started = 0

Init == InitRuns /\ faulty = TRUE /\ ledger = NoLedger

\* an environment in which every collaborator call and file operation completes
InitReliable == InitRuns /\ faulty = FALSE /\ ledger = NoLedger

\* the runs followed from the first on, with the ledger of their writes
InitLedger == InitRuns /\ faulty = TRUE /\ ledger = NewLedger(fs[dataset_path])

\* the run ends with an exception that reaches the caller
Raise(r, type, msg, detail) ==
  local' = [local EXCEPT ![r].pc = "done", ![r].outcome = Raised(type, msg, detail)]

Log(r, op) == hist' = [hist EXCEPT ![r].calls = Append(@, op)]

OthersIdle(r) == \A q \in Runs \ {r} : local[q].pc = "idle"

(* ------------------------------------------------------------------ *)
(* The call and its return                                              *)
(* ------------------------------------------------------------------ *)
\* line 12: a caller enters full_deployment with its arguments
Start(r) ==
  /\ local[r].pc = "idle"
  /\ started < MaxRuns
  /\ \E e \in Emails, m \in Models, x \in Lons, y \in Lats :
       local' = [local EXCEPT ![r] =
                   [IdleLocal EXCEPT !.pc = "load", !.uid = CallerUid[r], !.email = e,
                                     !.model = m, !.lon = x, !.lat = y]]
  /\ hist' = [hist EXCEPT ![r] =
                [IdleHist EXCEPT !.pre = fs[dataset_path], !.preBackup = fs[backup_path]]]
  /\ started' = started + 1
  /\ UNCHANGED <<fs, faulty, ledger>>

\* a call made while no other run is in progress
StartSerial(r) == OthersIdle(r) /\ Start(r)

\* the call is over: its frame is gone
Return(r) ==
  /\ local[r].pc = "done"
  /\ local' = [local EXCEPT ![r] = IdleLocal]
  /\ hist' = [hist EXCEPT ![r] = IdleHist]
  /\ UNCHANGED <<fs, started, faulty, ledger>>

(* ------------------------------------------------------------------ *)
(* lines 33-49: load and validate the dataset                           *)
(* ------------------------------------------------------------------ *)
\* the existence check left out: a path with no file is read as a file
Exists_unchecked(file) == TRUE

\* line 34: os.path.exists(dataset_path)
Exists(file) == file.exists

LoadDataset(r) ==
  /\ local[r].pc = "load"
  /\ LET file == fs[dataset_path]
         d == read_csv(file)
     IN  IF ~Exists(file)
         THEN Raise(r, "FileNotFoundError", "Dataset file not found", <<>>)
         ELSE IF ~CanParse(file)
         THEN Raise(r, "ValueError", "Failed to read dataset", <<>>)
         ELSE IF IsEmpty(d)
         THEN Raise(r, "ValueError", "DataFrame is empty", <<>>)
         ELSE IF ~HasRequired(d)
         THEN Raise(r, "ValueError", "Dataset missing required columns", <<>>)
         ELSE IF HasNull(d)
         THEN Raise(r, "ValueError", "Dataset contains missing values", <<>>)
         ELSE local' = [local EXCEPT ![r].pc = "validate", ![r].df = d]
  /\ IF Exists(fs[dataset_path]) THEN Log(r, "read_csv") ELSE UNCHANGED hist
  /\ UNCHANGED <<fs, started, faulty, ledger>>

(* ------------------------------------------------------------------ *)
(* lines 51-58: validate the email and the model                        *)
(* ------------------------------------------------------------------ *)
\* the absent model is let through to the OCR call
ModelMissing_ignored(model) == FALSE

\* line 57: if model is None
ModelMissing(model) == model = "None"

ValidateInputs(r) ==
  /\ local[r].pc = "validate"
  /\ IF ~email_regex(local[r].email)
     THEN Raise(r, "ValueError", "Email is not valid.", <<>>)
     ELSE IF ModelMissing(local[r].model)
     THEN Raise(r, "ValueError", "The model parameter is required but not provided.", <<>>)
     ELSE local' = [local EXCEPT ![r].pc = "ocr"]
  /\ UNCHANGED <<fs, hist, started, faulty, ledger>>

(* ------------------------------------------------------------------ *)
(* lines 63-77: OCR and extraction, retried on JSONDecodeError          *)
(* ------------------------------------------------------------------ *)
\* line 74: if attempt == max_retries
Exhausted(attempt) == attempt = max_retries

\* the first decode error reported in place of the last
ReportedError_first(errs) == errs[1]

\* line 75: the error the exhausted loop reports, errs the decode errors so far
ReportedError(errs) == errs[Len(errs)]

\* the retry goes back to the extractor with the OCR output it already has
OnDecodeError_reuse(r, op) ==
  LET errs == Append(hist[r].errors, DecodeError(op, local[r].attempt))
  IN  /\ hist' = [hist EXCEPT ![r].calls = Append(@, op), ![r].errors = errs]
      /\ IF Exhausted(local[r].attempt)
         THEN Raise(r, "RuntimeError", "Failed to decode JSON after 4 attempts",
                    ReportedError(errs))
         ELSE local' = [local EXCEPT ![r].pc = IF op = "ved" THEN "ved" ELSE "ocr",
                                     ![r].attempt = @ + 1]

\* lines 73-77: except json.JSONDecodeError as e, raised by the call op
OnDecodeError(r, op) ==
  LET errs == Append(hist[r].errors, DecodeError(op, local[r].attempt))
  IN  /\ hist' = [hist EXCEPT ![r].calls = Append(@, op), ![r].errors = errs]
      /\ IF Exhausted(local[r].attempt)
         THEN Raise(r, "RuntimeError", "Failed to decode JSON after 4 attempts",
                    ReportedError(errs))
         ELSE local' = [local EXCEPT ![r].pc = "ocr", ![r].attempt = @ + 1]

\* the exception is swallowed and the run goes on to the column comparison
OnOtherError_swallowed(r, op, type, msg) ==
  /\ local' = [local EXCEPT ![r].pc = "columns"]
  /\ Log(r, op)

\* an exception of the call op that line 73 does not catch
OnOtherError(r, op, type, msg) ==
  /\ Raise(r, type, msg, <<>>)
  /\ Log(r, op)

\* the extractor's call is logged, with the attempt on which it returned nothing
LogNoData(r) ==
  hist' = [hist EXCEPT ![r].calls = Append(@, "ved"),
                       ![r].empty = Append(@, local[r].attempt)]

\* the handler catches ValueError, so the empty result is retried
OnNoData_retried(r) ==
  /\ LogNoData(r)
  /\ IF Exhausted(local[r].attempt)
     THEN Raise(r, "RuntimeError", "Failed to decode JSON after 4 attempts", <<>>)
     ELSE local' = [local EXCEPT ![r].pc = "ocr", ![r].attempt = @ + 1]

\* the check of line 69 left out: the empty result becomes an empty DataFrame
OnNoData_unchecked(r) ==
  /\ LogNoData(r)
  /\ local' = [local EXCEPT ![r].pc = "columns"]

\* lines 69-70: if not data: raise ValueError
OnNoData(r) ==
  /\ LogNoData(r)
  /\ Raise(r, "ValueError", "VED function returned no data.", <<>>)

\* line 67: struk = ocr_receipt(test_path, model)
OcrReceipt(r) ==
  /\ local[r].pc = "ocr"
  /\ \/ /\ local' = [local EXCEPT ![r].pc = "ved", ![r].struk = Struk(local[r].attempt)]
        /\ Log(r, "ocr_receipt")
     \/ faulty /\ OnDecodeError(r, "ocr_receipt")
     \/ faulty /\ OnOtherError(r, "ocr_receipt", "Exception", "ocr_receipt failed")
  /\ UNCHANGED <<fs, started, faulty, ledger>>

\* what ved makes of a receipt: n rows under the columns cols
Extracted(cols, n, uid, struk) ==
  [columns |-> cols,
   rows |-> [i \in 1..n |-> [j \in 1..Len(cols) |-> IF cols[j] = "uid" THEN uid ELSE struk]]]

\* lines 68-72: data = ved(struk, key_path, uid, email); pd.DataFrame(data)
ExtractDict(r) ==
  /\ local[r].pc = "ved"
  /\ \/ \E cols \in RecColumns, n \in 0..MaxRecRows :
          /\ local' = [local EXCEPT ![r].pc = "columns",
                         ![r].data = Extracted(cols, n, local[r].uid, local[r].struk)]
          /\ Log(r, "ved")
     \/ OnNoData(r)
     \/ faulty /\ OnDecodeError(r, "ved")
     \/ faulty /\ OnOtherError(r, "ved", "Exception", "ved failed")
  /\ UNCHANGED <<fs, started, faulty, ledger>>

(* ------------------------------------------------------------------ *)
(* lines 79-81: compare the columns                                     *)
(* ------------------------------------------------------------------ *)
\* the columns compared as sets, whatever their order
ColumnsMatch_unordered(a, b) == SeqRange(a) = SeqRange(b)

\* line 80: all(df.columns == data.columns)
ColumnsMatch(a, b) == ColumnsEqual(a, b)

\* the backup of an earlier run is removed before the error is raised
OnMismatch_cleanup(r, msg) ==
  /\ Raise(r, "ValueError", msg, <<>>)
  /\ fs' = [fs EXCEPT ![backup_path] = NoFile]

\* lines 80-81: the comparison fails and the ValueError leaves the function
OnMismatch(r, msg) ==
  /\ Raise(r, "ValueError", msg, <<>>)
  /\ UNCHANGED fs

CheckColumns(r) ==
  /\ local[r].pc = "columns"
  /\ IF ~SameLength(local[r].df.columns, local[r].data.columns)
     THEN OnMismatch(r, "Lengths must match to compare")
     ELSE IF ~ColumnsMatch(local[r].df.columns, local[r].data.columns)
     THEN OnMismatch(r, "Columns do not match")
     ELSE local' = [local EXCEPT ![r].pc = "backup"] /\ UNCHANGED fs
  /\ UNCHANGED <<hist, started, faulty, ledger>>

(* ------------------------------------------------------------------ *)
(* lines 83-89: back the dataset up                                     *)
(* ------------------------------------------------------------------ *)
\* an existing destination is kept instead of overwritten
copyfile_keep(src, dst) == IF dst.exists THEN dst ELSE src

\* line 86: what shutil.copyfile leaves at the destination when it completes
copyfile(src, dst) == src

\* line 86: what a copy that fails may leave at the destination: the old
\* file, or any part of the source
FailedCopy(src, dst) == {dst} \cup {FileOf(p) : p \in Prefixes(src.lines)}

\* the failure of the copy is swallowed and the run goes on to the save
AfterBackupFailure_swallowed(r, f) ==
  /\ fs' = [fs EXCEPT ![backup_path] = f]
  /\ hist' = [hist EXCEPT ![r].calls = Append(@, "copyfile"), ![r].copy = "failed"]
  /\ local' = [local EXCEPT ![r].pc = "save"]

\* lines 88-89: the copy failed, leaving f at the backup path
AfterBackupFailure(r, f) ==
  /\ fs' = [fs EXCEPT ![backup_path] = f]
  /\ hist' = [hist EXCEPT ![r].calls = Append(@, "copyfile"), ![r].copy = "failed"]
  /\ Raise(r, "RuntimeError", "Failed to create backup", <<>>)

Backup(r) ==
  /\ local[r].pc = "backup"
  /\ \/ /\ fs' = [fs EXCEPT ![backup_path] = copyfile(fs[dataset_path], @)]
        /\ hist' = [hist EXCEPT ![r].calls = Append(@, "copyfile"), ![r].copy = "ok"]
        /\ local' = [local EXCEPT ![r].pc = "save"]
        /\ UNCHANGED ledger
     \/ /\ faulty
        /\ \E f \in FailedCopy(fs[dataset_path], fs[backup_path]) : AfterBackupFailure(r, f)
        /\ UNCHANGED ledger
  /\ UNCHANGED <<started, faulty>>

(* ------------------------------------------------------------------ *)
(* lines 91-97: append and save                                         *)
(* ------------------------------------------------------------------ *)
\* line 94: to_csv opens the file for writing, which empties it
Truncated(file) == FileOf(<<>>)

\* line 94: what a write that fails may leave in the file: any part of
\* the new content, written at the start of the file
FailedWrite(file, new) == {FileOf(WriteAt0(file.lines, p)) : p \in Prefixes(new)}

\* the dataset file is restored from the backup before the error is raised
AfterSaveFailure_restore(r, f) ==
  /\ fs' = [fs EXCEPT ![dataset_path] = fs[backup_path]]
  /\ hist' = [hist EXCEPT ![r].save = "failed", ![r].left = f,
                          ![r].calls = IF local[r].pc = "save" THEN Append(@, "to_csv") ELSE @]
  /\ Raise(r, "RuntimeError", "Failed to save updated dataset", <<>>)

\* lines 96-97: the save failed, leaving f at the dataset path
AfterSaveFailure(r, f) ==
  /\ fs' = [fs EXCEPT ![dataset_path] = f]
  /\ hist' = [hist EXCEPT ![r].save = "failed", ![r].left = f,
                          ![r].calls = IF local[r].pc = "save" THEN Append(@, "to_csv") ELSE @]
  /\ Raise(r, "RuntimeError", "Failed to save updated dataset", <<>>)

\* lines 93-94: concatenate, open the dataset file for writing
SaveOpen(r) ==
  /\ local[r].pc = "save"
  /\ \/ /\ local' = [local EXCEPT ![r].pc = "write",
                       ![r].df = concat(local[r].df, local[r].data)]
        /\ fs' = [fs EXCEPT ![dataset_path] = Truncated(@)]
        /\ Log(r, "to_csv")
        /\ UNCHANGED ledger
     \/ faulty /\ AfterSaveFailure(r, fs[dataset_path]) /\ UNCHANGED ledger
  /\ UNCHANGED <<started, faulty>>

\* line 94: write the table and close the file
SaveWrite(r) ==
  /\ local[r].pc = "write"
  /\ \/ LET f == FileOf(WriteAt0(fs[dataset_path].lines, to_csv(local[r].df)))
        IN  /\ fs' = [fs EXCEPT ![dataset_path] = f]
            /\ hist' = [hist EXCEPT ![r].save = "ok", ![r].left = f]
            /\ local' = [local EXCEPT ![r].pc = "pr"]
            /\ NoteWrite(f, local[r].data.rows)
     \/ /\ faulty
        /\ \E f \in FailedWrite(fs[dataset_path], to_csv(local[r].df)) : AfterSaveFailure(r, f)
        /\ UNCHANGED ledger
  /\ UNCHANGED <<started, faulty>>

(* ------------------------------------------------------------------ *)
(* lines 99-112: recommendations                                        *)
(* ------------------------------------------------------------------ *)
\* the dataset file is rolled back from the backup before the error is raised
AfterRecommendFailure_rollback(r) ==
  /\ Raise(r, "RuntimeError", "Failed to generate recommendations", <<>>)
  /\ fs' = [fs EXCEPT ![dataset_path] = fs[backup_path]]

\* lines 109-110: a recommender raised
AfterRecommendFailure(r) ==
  /\ Raise(r, "RuntimeError", "Failed to generate recommendations", <<>>)
  /\ UNCHANGED fs

\* line 101: the arguments of pr(dataset_path, uid)
pr_args(r) == <<dataset_path, local[r].uid>>

\* lines 102-108: the arguments of cc(dataset=, uid=, product_list=, lon=, lat=)
cc_args(r) ==
  <<dataset_path, local[r].uid, local[r].test_rec, local[r].lon, local[r].lat>>

\* the product list is returned in place of the proximity result
end_rec_test_rec(test_rec, cc_result) == test_rec

\* line 112: return end_rec, the value cc returned
end_rec(test_rec, cc_result) == cc_result

\* line 101: test_rec = pr(dataset_path, uid)
ProductRecommend(r) ==
  /\ local[r].pc = "pr"
  /\ \/ /\ \E p \in ProductLists :
             /\ local' = [local EXCEPT ![r].pc = "cc", ![r].test_rec = p]
             /\ hist' = [hist EXCEPT ![r].calls = Append(@, "pr"),
                                     ![r].prArgs = pr_args(r), ![r].prResult = p]
        /\ UNCHANGED <<fs, ledger>>
     \/ /\ faulty
        /\ AfterRecommendFailure(r)
        /\ hist' = [hist EXCEPT ![r].calls = Append(@, "pr"), ![r].prArgs = pr_args(r)]
        /\ NoteRecFailure
  /\ UNCHANGED <<started, faulty>>

\* lines 102-112: end_rec = cc(...); return end_rec
CheapProximity(r) ==
  /\ local[r].pc = "cc"
  /\ \/ /\ \E v \in Results :
             /\ local' = [local EXCEPT ![r].pc = "done",
                            ![r].outcome = Returned(end_rec(local[r].test_rec, v))]
             /\ hist' = [hist EXCEPT ![r].calls = Append(@, "cc"),
                                     ![r].ccArgs = cc_args(r), ![r].ccResult = v]
        /\ UNCHANGED <<fs, ledger>>
     \/ /\ faulty
        /\ AfterRecommendFailure(r)
        /\ hist' = [hist EXCEPT ![r].calls = Append(@, "cc"), ![r].ccArgs = cc_args(r)]
        /\ NoteRecFailure
  /\ UNCHANGED <<started, faulty>>

(* ------------------------------------------------------------------ *)
(* Specifications                                                       *)
(* ------------------------------------------------------------------ *)
Step(r) ==
  \/ LoadDataset(r)
  \/ ValidateInputs(r)
  \/ OcrReceipt(r)
  \/ ExtractDict(r)
  \/ CheckColumns(r)
  \/ Backup(r)
  \/ SaveOpen(r)
  \/ SaveWrite(r)
  \/ ProductRecommend(r)
  \/ CheapProximity(r)
  \/ Return(r)

\* runs serialized by the caller: one at a time
Next == \E r \in Runs : StartSerial(r) \/ Step(r)

Spec == Init /\ [][Next]_vars

\* serialized runs whose steps are eventually taken: every collaborator call
\* and file operation returns or raises
SpecLive == Spec /\ \A r \in Runs : WF_vars(Step(r))

\* serialized runs with the ledger of what they wrote
SpecLedger == InitLedger /\ [][Next]_vars

\* runs interleaved on the same dataset path, with no serialization
NextConcurrent == \E r \in Runs : Start(r) \/ Step(r)

SpecConcurrent == InitReliable /\ [][NextConcurrent]_vars

(* ------------------------------------------------------------------ *)
(* Properties                                                           *)
(* ------------------------------------------------------------------ *)
\* the runs in progress or just ended: the calls that have not returned
Running == {r \in Runs : local[r].pc # "idle"}

Ended(r) == local[r].pc = "done"

ReturnsResult(r) == Ended(r) /\ local[r].outcome.kind = "result"

Called(r, op) == op \in SeqRange(hist[r].calls)

Count(s, x) == Cardinality({i \in 1..Len(s) : s[i] = x})

IndexOf(s, x) == CHOOSE i \in 1..Len(s) : s[i] = x

\* the file holds exactly the table: its columns in order, then its rows in order
FileHolds(file, table) == file.exists /\ CanParse(file) /\ read_csv(file) = table

\* the table of the dataset file as run r found it
PreTable(r) == read_csv(hist[r].pre)

\* the pre-run rows followed by the rows of the record run r extracted
AppendedTable(r) ==
  [columns |-> PreTable(r).columns, rows |-> PreTable(r).rows \o local[r].data.rows]

FilesUntouched(r) ==
  fs[dataset_path] = hist[r].pre /\ fs[backup_path] = hist[r].preBackup

\* C1: a run that returns a result leaves in the backup file exactly the
\* content the dataset file had when the run started, and in the dataset file
\* the pre-run rows in order followed by the rows of the extracted record,
\* under the same columns in the same order.
C1_DurableAppend ==
  \A r \in Running :
    ReturnsResult(r) =>
      /\ fs[backup_path] = hist[r].pre
      /\ FileHolds(fs[dataset_path], AppendedTable(r))

C1_Witness ==
  \E r \in Running :
    /\ ReturnsResult(r)
    /\ local[r].data.rows # <<>>
    /\ hist[r].preBackup.exists

\* C2: the dataset file is written only after the copy to the backup path
\* completed in the same run; a failed copy ends the run with
\* RuntimeError 'Failed to create backup', the append and the write never
\* happen, and the dataset file keeps its pre-run content.
C2_BackupBeforeWrite ==
  \A r \in Running :
    /\ Called(r, "to_csv") =>
         /\ hist[r].copy = "ok"
         /\ IndexOf(hist[r].calls, "copyfile") < IndexOf(hist[r].calls, "to_csv")
    /\ (local[r].pc # "idle" /\ fs[dataset_path] # hist[r].pre) => Called(r, "to_csv")
    /\ hist[r].copy = "failed" =>
         /\ Ended(r)
         /\ local[r].outcome = Raised("RuntimeError", "Failed to create backup", <<>>)
         /\ ~Called(r, "to_csv")
         /\ local[r].df = PreTable(r)
         /\ fs[dataset_path] = hist[r].pre

C2_Witness ==
  \E r \in Running :
    /\ hist[r].copy = "failed"
    /\ Ended(r)
    /\ fs[backup_path] # hist[r].preBackup

ThreeExtractorFailures ==
  <<DecodeError("ved", 0), DecodeError("ved", 1), DecodeError("ved", 2)>>

\* C3: when the extractor raises a JSON decode failure on attempts 1, 2 and 3
\* and succeeds on attempt 4, the run goes on with the record of attempt 4
\* (made from the OCR output of attempt 4): it is the record appended, and
\* when the loop is left nothing was backed up or written.
C3_FourthAttemptRecord ==
  \A r \in Running :
    (hist[r].errors = ThreeExtractorFailures /\ local[r].data # NoFrame) =>
      /\ local[r].attempt = max_retries
      /\ local[r].data = Extracted(local[r].data.columns, Len(local[r].data.rows),
                                   local[r].uid, Struk(max_retries))
      /\ Count(hist[r].calls, "ocr_receipt") = max_retries + 1
      /\ Count(hist[r].calls, "ved") = max_retries + 1
      /\ local[r].pc = "columns" =>
           /\ FilesUntouched(r)
           /\ ~Called(r, "copyfile")
           /\ ~Called(r, "to_csv")
      /\ hist[r].save = "ok" => FileHolds(hist[r].left, AppendedTable(r))

C3_Witness ==
  \E r \in Running :
    /\ hist[r].errors = ThreeExtractorFailures
    /\ local[r].data.rows # <<>>
    /\ hist[r].save = "ok"

\* C4: when all 4 attempts raise a JSON decode failure the run ends with
\* RuntimeError 'Failed to decode JSON after 4 attempts' carrying the decode
\* error of the fourth attempt; nothing was backed up or written and no
\* recommender was called.  The error is raised in no other case.
C4_ExhaustedRetries ==
  \A r \in Running :
    /\ Len(hist[r].errors) = max_retries + 1 =>
         /\ Ended(r)
         /\ local[r].outcome =
              Raised("RuntimeError", "Failed to decode JSON after 4 attempts",
                     hist[r].errors[max_retries + 1])
         /\ hist[r].errors[max_retries + 1][2] = max_retries
         /\ FilesUntouched(r)
         /\ \A op \in {"copyfile", "to_csv", "pr", "cc"} : ~Called(r, op)
    /\ local[r].outcome.msg = "Failed to decode JSON after 4 attempts" =>
         Len(hist[r].errors) = max_retries + 1

C4_Witness ==
  \E r \in Running :
    /\ Ended(r)
    /\ Len(hist[r].errors) = max_retries + 1
    /\ hist[r].errors[1][1] # hist[r].errors[max_retries + 1][1]

\* the OCR and extractor calls of run r, in order
ExtractionCalls(r) ==
  SelectSeq(hist[r].calls, LAMBDA c : c \in {"ocr_receipt", "ved"})

ExhaustedError(r) ==
  local[r].outcome.msg = "Failed to decode JSON after 4 attempts"

\* C5 as stated: attempt k+1 starts only if attempt k ended with a JSON decode
\* failure surfaced from the extraction collaborator.
C5_RetryOnlyOnExtractorFailure ==
  \A r \in Running :
    \A k \in 1..Len(hist[r].errors) : hist[r].errors[k][1] = "ved"

\* C5, amended: a run makes at most 4 attempts, each calls OCR and then the
\* extractor afresh, and attempt k+1 starts only if attempt k ended with a
\* JSONDecodeError raised inside the attempt, by the OCR call or by the
\* extractor call; any failure that is not a JSONDecodeError (from OCR, from
\* the extractor, or an empty result) ends the run at once.
C5_RetryPolicy ==
  \A r \in Running :
    LET calls == ExtractionCalls(r)
        errs == hist[r].errors
    IN  /\ local[r].attempt \in 0..max_retries
        /\ Count(calls, "ocr_receipt") <= max_retries + 1
        /\ \A i \in 1..Len(calls) :
             calls[i] = "ved" => (i > 1 /\ calls[i - 1] = "ocr_receipt")
        /\ Len(errs) = IF ExhaustedError(r) THEN local[r].attempt + 1 ELSE local[r].attempt
        /\ \A k \in 1..Len(errs) : errs[k] \in {DecodeError(op, k - 1) : op \in {"ocr_receipt", "ved"}}
        /\ calls # <<>> =>
             Count(calls, "ocr_receipt") =
               IF local[r].pc = "ocr" THEN local[r].attempt ELSE local[r].attempt + 1
        /\ local[r].outcome.msg \in {"ocr_receipt failed", "ved failed",
                                     "VED function returned no data."} =>
             /\ Ended(r)
             /\ hist[r].calls[Len(hist[r].calls)] \in {"ocr_receipt", "ved"}
             /\ local[r].data = NoFrame

C5_Witness ==
  \E r \in Running :
    /\ local[r].attempt >= 1
    /\ hist[r].errors[1] = DecodeError("ocr_receipt", 0)
    /\ local[r].data # NoFrame

SchemaErrors == {"Columns do not match", "Lengths must match to compare"}

\* C6: a record whose columns differ from the dataset's in name, count or
\* order ends the run with a ValueError raised by the column comparison and
\* the files are as the run found them; only a record with the same columns
\* in the same order reaches the backup step.
C6_SchemaMismatch ==
  \A r \in Running :
    /\ (local[r].pc \in {"backup", "save", "write", "pr", "cc"} \/ hist[r].copy # "none") =>
         local[r].data.columns = PreTable(r).columns
    /\ (Ended(r) /\ local[r].data # NoFrame
          /\ local[r].data.columns # PreTable(r).columns) =>
         /\ local[r].outcome.kind = "error"
         /\ local[r].outcome.type = "ValueError"
         /\ local[r].outcome.msg \in SchemaErrors
         /\ FilesUntouched(r)
         /\ hist[r].copy = "none"

C6_Witness ==
  \E r \in Running :
    /\ Ended(r)
    /\ local[r].data.columns = <<"uid", "lat", "long">>
    /\ local[r].outcome.msg = "Columns do not match"

RecommendationError ==
  Raised("RuntimeError", "Failed to generate recommendations", <<>>)

\* C7: when a recommender fails the run ends with RuntimeError 'Failed to
\* generate recommendations'; no recommender is called twice, the proximity
\* recommender is called only after the product recommender returned, and
\* the dataset file stays updated (pre-run rows followed by the record) with
\* the backup holding the pre-run content.
C7_RecommendationFailure ==
  \A r \in Running :
    /\ Count(hist[r].calls, "pr") <= 1
    /\ Count(hist[r].calls, "cc") <= 1
    /\ Called(r, "cc") => (Called(r, "pr") /\ local[r].test_rec \in ProductLists)
    /\ (Ended(r) /\ local[r].outcome.kind = "error" /\ Called(r, "pr")) =>
         /\ local[r].outcome = RecommendationError
         /\ FileHolds(fs[dataset_path], AppendedTable(r))
         /\ fs[backup_path] = hist[r].pre
    /\ local[r].outcome = RecommendationError => Called(r, "pr")

C7_Witness ==
  \E r \in Running :
    /\ local[r].outcome = RecommendationError
    /\ ~Called(r, "cc")
    /\ local[r].data.rows # <<>>

PersistError == Raised("RuntimeError", "Failed to save updated dataset", <<>>)

\* C8: when the save fails after a completed backup the run ends with
\* RuntimeError 'Failed to save updated dataset', the backup file holds the
\* pre-run dataset content, the dataset file is left as the failed save left
\* it (nothing restores it) and no recommender is called.
C8_PersistFailure ==
  \A r \in Running :
    /\ hist[r].save = "failed" =>
         /\ Ended(r)
         /\ local[r].outcome = PersistError
         /\ hist[r].copy = "ok"
         /\ fs[backup_path] = hist[r].pre
         /\ fs[dataset_path] = hist[r].left
         /\ ~Called(r, "pr")
         /\ ~Called(r, "cc")
    /\ local[r].outcome = PersistError => hist[r].save = "failed"

C8_Witness ==
  \E r \in Running :
    /\ hist[r].save = "failed"
    /\ fs[dataset_path] # hist[r].pre

\* C9 as stated: at the end of every run, whatever its outcome, the dataset
\* file holds either its pre-run content or the complete pre-run rows followed
\* by all rows of the new record.
C9_NoPartialWrite ==
  \A r \in Running :
    Ended(r) =>
      \/ fs[dataset_path] = hist[r].pre
      \/ hist[r].copy = "ok" /\ FileHolds(fs[dataset_path], AppendedTable(r))

\* C9, amended: at the end of every run whose save did not fail the dataset
\* file holds its pre-run content or the complete appended table; at the end
\* of a run whose save failed (RuntimeError 'Failed to save updated dataset')
\* it holds the pre-run content or a prefix of the new content, anything
\* from nothing to all of it, and the backup file holds the complete pre-run
\* content.
C9_PartialOnlyOnFailedSave ==
  \A r \in Running :
    Ended(r) =>
      \/ fs[dataset_path] = hist[r].pre
      \/ hist[r].save = "ok" /\ FileHolds(fs[dataset_path], AppendedTable(r))
      \/ /\ hist[r].save = "failed"
         /\ local[r].outcome = PersistError
         /\ fs[dataset_path].lines \in Prefixes(to_csv(AppendedTable(r)))
         /\ fs[backup_path] = hist[r].pre

C9_Witness ==
  \E r \in Running :
    /\ Ended(r)
    /\ hist[r].save = "failed"
    /\ fs[dataset_path] = FileOf(<<Header3>>)

\* the table run r loaded, once it has concatenated its record onto it
Loaded(r) ==
  [columns |-> local[r].df.columns,
   rows |-> Prefix(local[r].df.rows, Len(local[r].df.rows) - Len(local[r].data.rows))]

BothSaved ==
  /\ \A r \in Runs : hist[r].save = "ok" /\ local[r].data.rows # <<>>
  /\ \A r, q \in Runs : Loaded(r) = Loaded(q)

AppendedRows == LET n[r \in Runs] == Len(local[r].data.rows) IN n["r1"] + n["r2"]

\* C10: two runs interleaved on one dataset path lose an update: whenever
\* both loaded the same table and both completed their write, the dataset
\* file holds fewer rows than the loaded rows plus the two records.
C10_LostUpdate ==
  BothSaved =>
    Len(fs[dataset_path].lines) < 1 + Len(Loaded("r1").rows) + AppendedRows

C10_Witness ==
  /\ BothSaved
  /\ \A r \in Runs : ReturnsResult(r)
  /\ FileHolds(fs[dataset_path], AppendedTable("r2"))
  /\ \A i \in 1..Len(fs[dataset_path].lines) :
       fs[dataset_path].lines[i] \notin SeqRange(local["r1"].data.rows)
  /\ fs[backup_path] = hist["r2"].pre

\* C11: the product recommender is called only after the dataset file was
\* written, with the dataset path and the caller's uid; the proximity
\* recommender is called only after the product recommender returned, with
\* the same path and uid, the product list the product recommender returned
\* and the caller's lon and lat; a run that returns a value returns exactly
\* what the proximity recommender returned.
C11_RecommenderCalls ==
  \A r \in Running :
    /\ Called(r, "pr") =>
         /\ hist[r].save = "ok"
         /\ IndexOf(hist[r].calls, "to_csv") < IndexOf(hist[r].calls, "pr")
         /\ FileHolds(hist[r].left, AppendedTable(r))
         /\ hist[r].prArgs = <<dataset_path, CallerUid[r]>>
    /\ Called(r, "cc") =>
         /\ hist[r].prResult \in ProductLists
         /\ IndexOf(hist[r].calls, "pr") < IndexOf(hist[r].calls, "cc")
         /\ hist[r].ccArgs =
              <<dataset_path, CallerUid[r], hist[r].prResult, local[r].lon, local[r].lat>>
    /\ ReturnsResult(r) =>
         /\ Called(r, "cc")
         /\ local[r].outcome = Returned(hist[r].ccResult)
         /\ hist[r].ccResult \in Results

C11_Witness ==
  \E r \in Running :
    /\ ReturnsResult(r)
    /\ hist[r].prResult = "p2"
    /\ local[r].outcome = Returned("rec2")

HasAt(e) == "@" \in SeqRange(e)

AtIndex(e) == CHOOSE p \in 1..Len(e) : e[p] = "@" /\ \A q \in 1..(p - 1) : e[q] # "@"

LocalPart(e) == Prefix(e, AtIndex(e) - 1)

DomainPart(e) == SubSeq(e, AtIndex(e) + 1, Len(e))

\* a '.' or '-' that is doubled or stands at the start or the end of s
BadSeparator(s) ==
  /\ s # <<>>
  /\ \/ s[1] \in Separators
     \/ s[Len(s)] \in Separators
     \/ \E i \in 1..(Len(s) - 1) : s[i] \in Separators /\ s[i + 1] \in Separators

\* the domain d has a label of two or more characters after a dot
HasDomainLabel(d) ==
  \E i \in 1..(Len(d) - 2) :
    d[i] = "." /\ d[i + 1] \in WordChars /\ d[i + 2] \in WordChars

\* the malformed emails: no '@', no dot-separated domain label of length at
\* least 2 after the '@', or a misplaced separator in the local part or domain
Malformed(e) ==
  \/ ~HasAt(e)
  \/ /\ HasAt(e)
     /\ \/ ~HasDomainLabel(DomainPart(e))
        \/ BadSeparator(LocalPart(e))
        \/ BadSeparator(DomainPart(e))

EmailError == Raised("ValueError", "Email is not valid.", <<>>)

LoadErrors ==
  {"Dataset file not found", "Failed to read dataset", "DataFrame is empty",
   "Dataset missing required columns", "Dataset contains missing values"}

\* C12: a run called with a malformed email never gets past the validation:
\* once its dataset is loaded it ends with ValueError 'Email is not valid.',
\* having called neither OCR nor the extractor, made no backup and written
\* nothing, with both files as it found them; the only other way such a run
\* ends is an error of the dataset load, which comes first.
C12_MalformedEmail ==
  \A r \in Running :
    Malformed(local[r].email) =>
      /\ local[r].pc \in {"load", "validate", "done"}
      /\ \A op \in {"ocr_receipt", "ved", "copyfile", "to_csv", "pr", "cc"} : ~Called(r, op)
      /\ FilesUntouched(r)
      /\ (Ended(r) /\ local[r].df # NoFrame) => local[r].outcome = EmailError
      /\ Ended(r) => (local[r].outcome = EmailError
                        \/ (local[r].df = NoFrame /\ local[r].outcome.msg \in LoadErrors))

C12_Witness ==
  \E r \in Running :
    /\ local[r].email = <<"a", "@", "b", "-", "-", "b", ".", "c", "c">>
    /\ local[r].model = "model"
    /\ local[r].outcome = EmailError
    /\ fs[backup_path].exists

ModelError ==
  Raised("ValueError", "The model parameter is required but not provided.", <<>>)

\* C13: a run called with no model (None) never reaches the OCR call: once
\* its dataset is loaded and its email accepted it ends with ValueError 'The
\* model parameter is required but not provided.'; OCR and the extractor are
\* never called and neither the backup file nor the dataset file is written.
\* The only other ways such a run ends are the errors of the earlier checks.
C13_MissingModel ==
  \A r \in Running :
    local[r].model = "None" =>
      /\ local[r].pc \in {"load", "validate", "done"}
      /\ \A op \in {"ocr_receipt", "ved", "copyfile", "to_csv", "pr", "cc"} : ~Called(r, op)
      /\ FilesUntouched(r)
      /\ (Ended(r) /\ local[r].df # NoFrame /\ ~Malformed(local[r].email)) =>
           local[r].outcome = ModelError
      /\ Ended(r) =>
           \/ local[r].outcome = ModelError
           \/ local[r].outcome = EmailError /\ Malformed(local[r].email)
           \/ local[r].df = NoFrame /\ local[r].outcome.msg \in LoadErrors

C13_Witness ==
  \E r \in Running :
    /\ local[r].model = "None"
    /\ local[r].outcome = ModelError
    /\ hist[r].calls = <<"read_csv">>
    /\ fs[backup_path].exists

NoDataError == Raised("ValueError", "VED function returned no data.", <<>>)

\* C14: when the extractor returns nothing on an attempt, the run ends on
\* that attempt with ValueError 'VED function returned no data.': the
\* extractor's call is the last call of the run, no further attempt starts
\* whatever the number of attempts used, nothing is backed up or written and
\* no recommender is called.  The error is raised in no other case.
C14_EmptyExtraction ==
  \A r \in Running :
    /\ hist[r].empty # <<>> =>
         /\ Ended(r)
         /\ local[r].outcome = NoDataError
         /\ hist[r].empty = <<local[r].attempt>>
         /\ hist[r].calls[Len(hist[r].calls)] = "ved"
         /\ Count(hist[r].calls, "ocr_receipt") = local[r].attempt + 1
         /\ Count(hist[r].calls, "ved") =
              1 + Cardinality({k \in 1..Len(hist[r].errors) : hist[r].errors[k][1] = "ved"})
         /\ Len(hist[r].errors) = local[r].attempt
         /\ local[r].data = NoFrame
         /\ \A op \in {"copyfile", "to_csv", "pr", "cc"} : ~Called(r, op)
         /\ FilesUntouched(r)
    /\ local[r].outcome = NoDataError => hist[r].empty # <<>>

C14_Witness ==
  \E r \in Running :
    /\ Ended(r)
    /\ hist[r].empty = <<1>>
    /\ local[r].attempt < max_retries

\* the cell of column j in a line of the file, NaN where the line is short
Cell(line, j) == IF j <= Len(line) THEN line[j] ELSE NaN

\* the file exists, parses, holds a non-empty table with the columns uid,
\* long and lat and no null under them
ValidDataset(file) ==
  /\ file.exists
  /\ file.lines # <<>>
  /\ Len(file.lines) >= 2
  /\ Head(file.lines) # <<>>
  /\ {"uid", "long", "lat"} \subseteq SeqRange(Head(file.lines))
  /\ \A i \in 2..Len(file.lines) :
       \A j \in 1..Len(Head(file.lines)) :
         Head(file.lines)[j] \in {"uid", "long", "lat"} => Cell(file.lines[i], j) # NaN

\* the error of the load gate for a file that does not pass it
LoadError(file) ==
  IF ~file.exists
  THEN Raised("FileNotFoundError", "Dataset file not found", <<>>)
  ELSE IF file.lines = <<>>
  THEN Raised("ValueError", "Failed to read dataset", <<>>)
  ELSE IF Len(file.lines) < 2 \/ Head(file.lines) = <<>>
  THEN Raised("ValueError", "DataFrame is empty", <<>>)
  ELSE IF ~({"uid", "long", "lat"} \subseteq SeqRange(Head(file.lines)))
  THEN Raised("ValueError", "Dataset missing required columns", <<>>)
  ELSE Raised("ValueError", "Dataset contains missing values", <<>>)

\* C15: a run gets past the load exactly when the dataset file exists,
\* parses, is non-empty, has the columns uid, long and lat and no null in
\* them, and then holds the table of the file; otherwise it ends with
\* FileNotFoundError (no file), ValueError 'Failed to read dataset'
\* (unparsable) or the ValueError of the empty table, the missing column or
\* the null, whatever the email and the model, with no OCR, extractor, copy
\* or write and both files untouched.
C15_LoadGate ==
  \A r \in Running :
    local[r].pc # "load" =>
      /\ local[r].df # NoFrame <=> ValidDataset(hist[r].pre)
      /\ (ValidDataset(hist[r].pre) /\ hist[r].save = "none" /\ local[r].pc # "write") =>
           /\ local[r].df.columns = Head(hist[r].pre.lines)
           /\ local[r].df.rows = Tail(hist[r].pre.lines)
      /\ ~ValidDataset(hist[r].pre) =>
           /\ Ended(r)
           /\ local[r].outcome = LoadError(hist[r].pre)
           /\ hist[r].calls \in {<<>>, <<"read_csv">>}
           /\ Called(r, "read_csv") <=> hist[r].pre.exists
           /\ FilesUntouched(r)

C15_Witness ==
  \E r \in Running :
    /\ Ended(r)
    /\ local[r].outcome.msg = "Dataset contains missing values"
    /\ Malformed(local[r].email)
    /\ local[r].model = "None"

\* C16: a run copies to the backup path at most once and writes the dataset
\* file at most once, and the two files change by nothing else; a run that
\* returns a result made exactly one completed copy and exactly one completed
\* write, and the table it wrote holds the pre-run rows and the rows of the
\* record once.
C16_WrittenOnce ==
  \A r \in Running :
    /\ Count(hist[r].calls, "copyfile") <= 1
    /\ Count(hist[r].calls, "to_csv") <= 1
    /\ fs[backup_path] # hist[r].preBackup => Called(r, "copyfile")
    /\ fs[dataset_path] # hist[r].pre => Called(r, "to_csv")
    /\ ReturnsResult(r) =>
         /\ Count(hist[r].calls, "copyfile") = 1
         /\ Count(hist[r].calls, "to_csv") = 1
         /\ hist[r].copy = "ok"
         /\ hist[r].save = "ok"
         /\ local[r].df.rows = PreTable(r).rows \o local[r].data.rows
         /\ Len(fs[dataset_path].lines) = Len(hist[r].pre.lines) + Len(local[r].data.rows)

C16_Witness ==
  \E r \in Running :
    /\ ReturnsResult(r)
    /\ Len(local[r].data.rows) = 1
    /\ Len(hist[r].pre.lines) = 4

\* the stage a run is in: load 1, validation 2, extraction attempts 3, schema
\* comparison 4, backup 5, dataset write 6, product recommendation 7,
\* proximity recommendation 8, ended 9
StageOfPc(pc) ==
  CASE pc = "load" -> 1
    [] pc = "validate" -> 2
    [] pc \in {"ocr", "ved"} -> 3
    [] pc = "columns" -> 4
    [] pc = "backup" -> 5
    [] pc \in {"save", "write"} -> 6
    [] pc = "pr" -> 7
    [] pc = "cc" -> 8
    [] pc = "done" -> 9
    [] OTHER -> 0

StageOfCall(op) ==
  CASE op = "read_csv" -> 1
    [] op \in {"ocr_receipt", "ved"} -> 3
    [] op = "copyfile" -> 5
    [] op = "to_csv" -> 6
    [] op = "pr" -> 7
    [] op = "cc" -> 8

\* the stage run r reached: where it is, or the stage of its last call or
\* check when it has ended
Reached(r, k) ==
  \/ local[r].pc # "done" /\ StageOfPc(local[r].pc) >= k
  \/ \E i \in 1..Len(hist[r].calls) : StageOfCall(hist[r].calls[i]) >= k

\* the stages in order, each entered only after the earlier ones succeeded
C17_StagesInOrder ==
  \A r \in Running :
    /\ \A i, j \in 1..Len(hist[r].calls) :
         i < j => StageOfCall(hist[r].calls[i]) <= StageOfCall(hist[r].calls[j])
    /\ \A i \in 1..Len(hist[r].calls) :
         local[r].pc # "done" => StageOfCall(hist[r].calls[i]) <= StageOfPc(local[r].pc)
    /\ Reached(r, 2) => (ValidDataset(hist[r].pre) /\ local[r].df # NoFrame)
    /\ Reached(r, 3) => (~Malformed(local[r].email) /\ local[r].model # "None")
    /\ (Reached(r, 4) /\ local[r].pc # "done") =>
         /\ local[r].data # NoFrame
         /\ hist[r].calls[Len(ExtractionCalls(r)) + 1] = "ved"
         /\ hist[r].empty = <<>>
    /\ Reached(r, 5) => local[r].data.columns = PreTable(r).columns
    /\ Reached(r, 6) => hist[r].copy = "ok"
    /\ Reached(r, 7) => hist[r].save = "ok"
    /\ Reached(r, 8) => hist[r].prResult \in ProductLists

\* exactly one outcome, and only at the end; of several bad inputs the
\* earliest stage's error is the one raised
C17_OneOutcome ==
  \A r \in Running :
    /\ local[r].outcome.kind \in {"none", "result", "error"}
    /\ Ended(r) <=> local[r].outcome.kind # "none"
    /\ local[r].outcome.kind = "result" => Called(r, "cc") /\ hist[r].ccResult \in Results
    /\ Ended(r) =>
         IF ~ValidDataset(hist[r].pre) THEN local[r].outcome = LoadError(hist[r].pre)
         ELSE IF Malformed(local[r].email) THEN local[r].outcome = EmailError
         ELSE IF local[r].model = "None" THEN local[r].outcome = ModelError
         ELSE Reached(r, 3)

\* a step of a run moves it on within its stage, to the next stage or to
\* its end, and a run that has its outcome does nothing more but return
C17_StepsForward ==
  \A r \in Runs :
    /\ (local[r].pc \notin {"idle", "done"} /\ local'[r] # local[r]) =>
         \/ local'[r].pc = "done"
         \/ StageOfPc(local'[r].pc) = StageOfPc(local[r].pc) + 1
         \/ /\ StageOfPc(local'[r].pc) = StageOfPc(local[r].pc)
            /\ StageOfPc(local[r].pc) \in {3, 6}
    /\ Ended(r) =>
         /\ fs' = fs
         /\ local'[r] \in {local[r], IdleLocal}
         /\ hist'[r] \in {hist[r], IdleHist}

\* C17: every run goes through the stages load, validation, extraction
\* attempts, schema comparison, backup, dataset write, product
\* recommendation, proximity recommendation in this order, each entered only
\* after all earlier ones succeeded; the first failure ends the run with that
\* single error and nothing is done after it; every run that starts ends,
\* with a result or with one error; the earliest stage's error wins.
C17_Sequential ==
  /\ []C17_StagesInOrder
  /\ []C17_OneOutcome
  /\ [][C17_StepsForward]_vars
  /\ \A r \in Runs : []<>(local[r].pc \in {"idle", "done"})

C17_Witness ==
  \E r \in Running :
    /\ Ended(r)
    /\ ~hist[r].pre.exists
    /\ Malformed(local[r].email)
    /\ local[r].outcome.type = "FileNotFoundError"

\* the errors of the stages before the backup
PreBackupErrors ==
  LoadErrors \cup SchemaErrors
    \cup {"Email is not valid.", "The model parameter is required but not provided.",
          "ocr_receipt failed", "ved failed", "VED function returned no data.",
          "Failed to decode JSON after 4 attempts"}

\* C18: as long as a run has not come to its backup step, and when it ends
\* with an error before it (load, email, model, OCR or extractor failure,
\* empty result, exhausted retries, schema mismatch), the dataset file and
\* the backup file an earlier run left are as the run found them and no
\* recommender was called.
C18_FailureBeforeBackup ==
  \A r \in Running :
    /\ hist[r].copy = "none" =>
         /\ FilesUntouched(r)
         /\ \A op \in {"copyfile", "to_csv", "pr", "cc"} : ~Called(r, op)
    /\ (Ended(r) /\ hist[r].copy = "none") =>
         /\ local[r].outcome.kind = "error"
         /\ local[r].outcome.msg \in PreBackupErrors
    /\ local[r].outcome.msg \in PreBackupErrors =>
         /\ hist[r].copy = "none"
         /\ fs[dataset_path] = hist[r].pre
         /\ fs[backup_path] = hist[r].preBackup

C18_Witness ==
  \E r \in Running :
    /\ Ended(r)
    /\ local[r].outcome.msg \in SchemaErrors
    /\ hist[r].preBackup.exists
    /\ fs[backup_path] = hist[r].preBackup
    /\ hist[r].preBackup # hist[r].pre

\* the last-known-good contents: the initial dataset file and what each
\* completed write left
GoodContents == {ledger.initial} \cup SeqRange(ledger.written)

\* C19 as stated: across serialized runs the backup file, once it exists,
\* holds the initial dataset content or the content a completed write left,
\* and no run deletes it.
C19_BackupLastKnownGood ==
  /\ fs[backup_path].exists => fs[backup_path] \in GoodContents
  /\ \A r \in Running : hist[r].preBackup.exists => fs[backup_path].exists

\* C19, amended: no run deletes the backup; until a run's copy the backup is
\* as the run found it, after a completed copy it holds exactly the content
\* the dataset file had when the run started, whatever that was (a
\* last-known-good content if the file found was one, the partial file of an
\* earlier failed write if that still loaded), and after a failed copy it is
\* as found or holds a part of that content.
C19_BackupIsPreRunCopy ==
  \A r \in Running :
    /\ hist[r].preBackup.exists => fs[backup_path].exists
    /\ hist[r].copy = "none" => fs[backup_path] = hist[r].preBackup
    /\ hist[r].copy = "ok" =>
         /\ fs[backup_path] = hist[r].pre
         /\ hist[r].pre \in GoodContents => fs[backup_path] \in GoodContents
    /\ hist[r].copy = "failed" =>
         \/ fs[backup_path] = hist[r].preBackup
         \/ /\ fs[backup_path].exists
            /\ fs[backup_path].lines \in Prefixes(hist[r].pre.lines)

C19_Witness ==
  \E r \in Running :
    /\ hist[r].copy = "ok"
    /\ hist[r].preBackup \in GoodContents
    /\ hist[r].preBackup.exists
    /\ fs[backup_path] \notin GoodContents
    /\ ValidDataset(fs[backup_path])

\* the number of completed writes so far
Writes == Len(ledger.written)

\* every run started so far has completed its write
AllRunsWrote == Writes >= 1 /\ started = Writes

\* C20: nothing is de-duplicated: once every one of the n runs started so
\* far has completed its write, whether its recommendation step then failed
\* or not, the dataset file holds the initial rows followed by the records of
\* the n runs in run order (the same record as often as it was appended), and
\* the backup holds the dataset content from just before the last write.
C20_RecordsAccumulate ==
  AllRunsWrote =>
    /\ FileHolds(fs[dataset_path],
                 [columns |-> Head(ledger.initial.lines),
                  rows |-> Tail(ledger.initial.lines) \o ledger.rows])
    /\ fs[backup_path] =
         IF Writes = 1 THEN ledger.initial ELSE ledger.written[Writes - 1]
    /\ \A r \in Running :
         /\ hist[r].save = "ok"
         /\ local[r].outcome.kind = "error" => local[r].outcome = RecommendationError

C20_Witness ==
  /\ AllRunsWrote
  /\ Writes = 2
  /\ 1 \in ledger.recFailed
  /\ Len(ledger.rows) = 2
  /\ ledger.rows[1] = ledger.rows[2]
  /\ \E r \in Running :
       /\ ReturnsResult(r)
       /\ hist[r].pre = ledger.written[1]

====
